---- MODULE Spec2Model ----
(***************************************************************************)
(* Instance lifecycle manager of the MT5 fleet controller:                 *)
(* SessionManager (src/app/session_manager.py) and the status monitor      *)
(* thread (src/server.py, monitor_instances).                              *)
(*                                                                         *)
(* State: the accounts table, the instance directories with their          *)
(* launcher files, the OS process table, whether psutil could be imported, *)
(* and the controller call that has just returned, with its return value.  *)
(***************************************************************************)
EXTENDS Integers, Sequences, FiniteSets, TLC

\* ------------------------------ bounds ------------------------------
MaxPid == 1
MaxClock == 1
\* Modification times of the template candidates run from 0 to MaxMtime.
MaxMtime == 2

\* Python's None for the nullable pid column (falsy, like pid 0).
None == 0

Accounts == {"1001", "10010"}
Pids == 1..MaxPid
Times == 0..MaxClock

\* ------------------------------ paths -------------------------------
\* A path is a sequence of characters; a file name is one token.
Sep == "/"
instances_dir == <<Sep, "i">>

IdChars(account) ==
    IF account = "1001" THEN <<"1", "0", "0", "1">>
    ELSE IF account = "10010" THEN <<"1", "0", "0", "1", "0">>
    ELSE <<"?">>

path_join(dir, name) == dir \o <<Sep>> \o name

get_instance_path(account) == path_join(instances_dir, IdChars(account))

\* Python's `needle in haystack` on strings.
str_contains(needle, haystack) ==
    \E i \in 0..(Len(haystack) - Len(needle)) :
        SubSeq(haystack, i + 1, i + Len(needle)) = needle

\* ------------------------------ values ------------------------------
Owners == Accounts \cup {"foreign"}
NoProc == "none"

NoRow == [nickname |-> "", status |-> "Absent", pid |-> None, created |-> 0]

\* Files of an instance directory, relative to it; "." is the directory itself.
ExeNames == <<"terminal64.exe", "terminal.exe">>
Skeleton == {"Data", "Data/MQL5", "Data/MQL5/Files", "Data/MQL5/Include",
             "Data/MQL5/Experts", "Data/MQL5/Indicators", "Data/MQL5/Scripts",
             "Data/config", "Data/profiles", "Data/bases", "Data/logs"}

\* procs     pid -> the owner of the running process ("none": no such process)
\* reg       the accounts table: account -> row
\* fs        account -> the files of its instance directory
\* launcher  account -> the launcher file (see create_bat_launcher)
\* psutil    whether the psutil import worked
\* now       the wall clock, as datetime.now() reads it
\* last      the controller call that has just returned, or the process
\*           that has just died ("death", with the owner as account)
\* pending   the calls that are under way on a thread, each with what it has
\*           read so far (see the interleaved steps below); empty while
\*           calls run one at a time
\* template  the environment that __init__ reads and the profile_source
\*           it sets from it (see the profile template below)
VARIABLES procs, reg, fs, launcher, psutil, now, last, pending, template

vars == <<procs, reg, fs, launcher, psutil, now, last, pending, template>>

\* The part of the state the handlers read and write, passed by value so that
\* handlers compose (restart = stop; start). ret is the handler's return value,
\* term and kill the pids it sent terminate() and kill() to.
Cur == [procs |-> procs, reg |-> reg, fs |-> fs, launcher |-> launcher,
        ret |-> TRUE, term |-> {}, kill |-> {}]

\* --------------------------- process table --------------------------
proc_name(owner) ==
    IF owner \in Accounts THEN "terminal64.exe"
    ELSE IF owner = "foreign" THEN "notepad.exe"
    ELSE ""

proc_exe(owner) ==
    IF owner \in Accounts
    THEN path_join(get_instance_path(owner), <<"terminal64.exe">>)
    ELSE <<Sep, "w", Sep, "notepad.exe">>

proc_cwd(owner) ==
    IF owner \in Accounts THEN get_instance_path(owner) ELSE <<Sep, "w">>

Running(P) == {pid \in DOMAIN P : P[pid] # NoProc}

Free(P) == DOMAIN P \ Running(P)

Min(S) == CHOOSE x \in S : \A y \in S : x <= y

\* How a process answers the controller's signals during one call:
\* 0 exits on terminate(); 1 ignores terminate() and exits on kill();
\* 2 refuses both (terminate() and kill() raise).
Resists == {0, 1, 2}

\* The answers of the processes `targets` of the process table P.
Toughness(P, targets) ==
    {t \in [DOMAIN P -> Resists] : \A pid \in DOMAIN P \ targets : t[pid] = 0}

\* The process table once `pids` got a signal: terminate() (strength 1)
\* ends those of toughness 0, kill() (strength 2) those of toughness 0 and 1.
Signalled(P, pids, tough, strength) ==
    [pid \in DOMAIN P |-> IF pid \in pids /\ tough[pid] < strength THEN NoProc ELSE P[pid]]

\* ----------------------------- registry -----------------------------
account_exists(R, account) == R[account] # NoRow

\* Mutant of update_account_status: a missing row is inserted.
update_account_status_upserts(R, account, status, pid) ==
    IF ~account_exists(R, account)
    THEN [R EXCEPT ![account] = [nickname |-> "", status |-> status, pid |-> pid, created |-> 0]]
    ELSE IF pid # None
         THEN [R EXCEPT ![account].status = status, ![account].pid = pid]
         ELSE [R EXCEPT ![account].status = status]

\* Mutant of update_account_status: the UPDATE has no WHERE clause.
update_account_status_all_rows(R, account, status, pid) ==
    [a \in DOMAIN R |->
        IF ~account_exists(R, a) THEN R[a]
        ELSE IF pid # None THEN [R[a] EXCEPT !.status = status, !.pid = pid]
        ELSE [R[a] EXCEPT !.status = status]]

update_account_status(R, account, status, pid) ==
    IF ~account_exists(R, account) THEN R
    ELSE IF pid # None
         THEN [R EXCEPT ![account].status = status, ![account].pid = pid]
         ELSE [R EXCEPT ![account].status = status]

\* ------------------------- process matching -------------------------
path_matches(account, owner) ==
    LET inst == get_instance_path(account)
    IN  \/ str_contains(inst, proc_exe(owner))
        \/ str_contains(inst, proc_cwd(owner))

\* path_matches for every account and process owner, computed once.
MatchTable == [account \in Accounts, owner \in Owners |-> path_matches(account, owner)]

_iter_instance_procs(P, account) ==
    IF ~psutil THEN {}
    ELSE {pid \in Running(P) :
            /\ proc_name(P[pid]) \in {"terminal64.exe", "terminal.exe"}
            /\ MatchTable[account, P[pid]]}

_find_mt5_pid_for_account(P, account) ==
    LET found == _iter_instance_procs(P, account)
    IN  IF found = {} THEN None ELSE Min(found)

\* Mutant of is_instance_alive: the recorded pid is looked up without psutil
\* being there.
is_instance_alive_unguarded(P, R, account) ==
    LET pid == R[account].pid
    IN  \/ pid # None /\ pid \in Running(P)
        \/ _iter_instance_procs(P, account) # {}

is_instance_alive(P, R, account) ==
    LET pid == R[account].pid
    IN  \/ psutil /\ pid # None /\ pid \in Running(P)
        \/ _iter_instance_procs(P, account) # {}

\* ------------------------------- stop -------------------------------
\* Mutant of stop_instance: kill() goes to every process that got terminate().
stop_instance_kills_all(st, account, tough) ==
    IF ~psutil THEN [st EXCEPT !.ret = FALSE]
    ELSE LET first  == _iter_instance_procs(st.procs, account)
             P1     == Signalled(st.procs, first, tough, 1)
             P2     == Signalled(P1, first, tough, 2)
             ok     == \A pid \in first : tough[pid] < 2
         IN  [st EXCEPT !.procs = P2,
                        !.reg = update_account_status(st.reg, account, "Offline", None),
                        !.ret = ok,
                        !.term = @ \cup first,
                        !.kill = @ \cup first]

stop_instance(st, account, tough) ==
    IF ~psutil THEN [st EXCEPT !.ret = FALSE]
    ELSE LET first  == _iter_instance_procs(st.procs, account)
             P1     == Signalled(st.procs, first, tough, 1)
             second == _iter_instance_procs(P1, account)
             P2     == Signalled(P1, second, tough, 2)
             ok     == \A pid \in first \cup second : tough[pid] < 2
         IN  [st EXCEPT !.procs = P2,
                        !.reg = update_account_status(st.reg, account, "Offline", None),
                        !.ret = ok,
                        !.term = @ \cup first,
                        !.kill = @ \cup second]

\* ------------------------------ launch ------------------------------
\* What the OS makes of a spawn call by the time the settling interval ends:
\* "raise"  Popen raises;
\* "absent" the call returned (a direct child got pid sp.pid) but no terminal
\*          of this launch is running when the process table is scanned;
\* "up"     the terminal runs as process sp.pid.
SpawnOutcomes(P) ==
    {[kind |-> "raise", pid |-> None]}
    \cup [kind : {"absent", "up"}, pid : Free(P)]

Spawned(P, account, sp) ==
    IF sp.kind = "up" THEN [P EXCEPT ![sp.pid] = account] ELSE P

\* The executable create_bat_launcher and start_instance probe for.
probe_exe(F, account) ==
    IF ExeNames[1] \in F[account] THEN ExeNames[1]
    ELSE IF ExeNames[2] \in F[account] THEN ExeNames[2]
    ELSE ""

\* The launcher file of an account is launcher[account]: the executable
\* path its text runs, <<>> when the file does not exist.
create_bat_launcher(st, account) ==
    LET exe == probe_exe(st.fs, account)
    IN  IF exe = "" THEN [st EXCEPT !.ret = FALSE]
        ELSE [st EXCEPT !.fs[account] = @ \cup {"Data"},
                        !.launcher[account] = path_join(get_instance_path(account), <<exe>>),
                        !.ret = TRUE]

\* Mutant of launch_bat_file: the row is marked Starting before the spawn.
launch_bat_file_marks_first(st, account, sp) ==
    IF st.launcher[account] = <<>> THEN [st EXCEPT !.ret = FALSE]
    ELSE IF sp.kind = "raise"
         THEN [st EXCEPT !.reg = update_account_status(st.reg, account, "Starting", None),
                         !.ret = FALSE]
    ELSE LET P   == Spawned(st.procs, account, sp)
             pid == _find_mt5_pid_for_account(P, account)
         IN  IF pid # None
             THEN [st EXCEPT !.procs = P,
                             !.reg = update_account_status(st.reg, account, "Online", pid),
                             !.ret = TRUE]
             ELSE [st EXCEPT !.procs = P,
                             !.reg = update_account_status(st.reg, account, "Starting", None),
                             !.ret = TRUE]

launch_bat_file(st, account, sp) ==
    IF st.launcher[account] = <<>> THEN [st EXCEPT !.ret = FALSE]
    ELSE IF sp.kind = "raise" THEN [st EXCEPT !.ret = FALSE]
    ELSE LET P   == Spawned(st.procs, account, sp)
             pid == _find_mt5_pid_for_account(P, account)
         IN  IF pid # None
             THEN [st EXCEPT !.procs = P,
                             !.reg = update_account_status(st.reg, account, "Online", pid),
                             !.ret = TRUE]
             ELSE [st EXCEPT !.procs = P,
                             !.reg = update_account_status(st.reg, account, "Starting", None),
                             !.ret = TRUE]

\* Mutant of start_instance: no liveness check before the launch.
start_instance_always_launches(st, account, sp) ==
    IF "." \notin st.fs[account] THEN [st EXCEPT !.ret = FALSE]
    ELSE IF st.launcher[account] # <<>> THEN launch_bat_file(st, account, sp)
    ELSE IF probe_exe(st.fs, account) = "" THEN [st EXCEPT !.ret = FALSE]
    ELSE LET F == [st.fs EXCEPT ![account] = @ \cup {"Data"}]
         IN  IF sp.kind = "raise" THEN [st EXCEPT !.fs = F, !.ret = FALSE]
             ELSE LET P     == Spawned(st.procs, account, sp)
                      found == _find_mt5_pid_for_account(P, account)
                      pid   == IF found # None THEN found ELSE sp.pid
                  IN  [st EXCEPT !.fs = F,
                                 !.procs = P,
                                 !.reg = update_account_status(st.reg, account, "Online", pid),
                                 !.ret = TRUE]

start_instance(st, account, sp) ==
    IF is_instance_alive(st.procs, st.reg, account) THEN [st EXCEPT !.ret = TRUE]
    ELSE IF "." \notin st.fs[account] THEN [st EXCEPT !.ret = FALSE]
    ELSE IF st.launcher[account] # <<>> THEN launch_bat_file(st, account, sp)
    ELSE IF probe_exe(st.fs, account) = "" THEN [st EXCEPT !.ret = FALSE]
    ELSE LET F == [st.fs EXCEPT ![account] = @ \cup {"Data"}]
         IN  IF sp.kind = "raise" THEN [st EXCEPT !.fs = F, !.ret = FALSE]
             ELSE LET P     == Spawned(st.procs, account, sp)
                      found == _find_mt5_pid_for_account(P, account)
                      pid   == IF found # None THEN found ELSE sp.pid
                  IN  [st EXCEPT !.fs = F,
                                 !.procs = P,
                                 !.reg = update_account_status(st.reg, account, "Online", pid),
                                 !.ret = TRUE]

\* Mutant of restart_instance: no start after a failed stop.
restart_instance_stops_short(st, account, tough, sp) ==
    LET stopped == stop_instance(st, account, tough)
        started == start_instance(stopped, account, sp)
    IN  IF stopped.ret THEN started ELSE stopped

restart_instance(st, account, tough, sp) ==
    LET stopped == stop_instance(st, account, tough)
        started == start_instance(stopped, account, sp)
    IN  [started EXCEPT !.ret = stopped.ret /\ started.ret]

\* Mutant of delete_instance: the row is kept when the stop step failed.
delete_instance_unless_stop_failed(st, account, tough, rm_ok) ==
    LET stopped == stop_instance(st, account, tough)
        removed == "." \in stopped.fs[account] /\ rm_ok
    IN  [stopped EXCEPT !.fs[account] = IF removed THEN {} ELSE @,
                        !.launcher[account] = IF removed THEN <<>> ELSE @,
                        !.reg[account] = IF stopped.ret THEN NoRow ELSE @,
                        !.ret = stopped.ret]

\* rm_ok: whether shutil.rmtree(ignore_errors=True) removed the tree.
delete_instance(st, account, tough, rm_ok) ==
    LET stopped == stop_instance(st, account, tough)
        removed == "." \in stopped.fs[account] /\ rm_ok
    IN  [stopped EXCEPT !.fs[account] = IF removed THEN {} ELSE @,
                        !.launcher[account] = IF removed THEN <<>> ELSE @,
                        !.reg[account] = NoRow,
                        !.ret = TRUE]

\* ------------------------------ create ------------------------------
MT5Names == {"terminal64.exe", "terminal.exe", "metatester64.exe", "metaeditor64.exe"}

CloseTargets(P) ==
    IF ~psutil THEN {} ELSE {pid \in Running(P) : proc_name(P[pid]) \in MT5Names}

_close_all_mt5_processes(st, tough) ==
    LET targets   == CloseTargets(st.procs)
        P1        == Signalled(st.procs, targets, tough, 1)
        survivors == targets \cap Running(P1)
    IN  [st EXCEPT !.procs = Signalled(P1, survivors, tough, 2),
                   !.term = @ \cup targets,
                   !.kill = @ \cup survivors]

\* Mutant of _create_portable_data_structure: the first makedirs only.
_create_portable_data_structure_first(F, account) ==
    [F EXCEPT ![account] = @ \cup {"Data"}]

_create_portable_data_structure(F, account) ==
    [F EXCEPT ![account] = @ \cup Skeleton]

\* tpl: the template folders that were found and could be copied (none
\* when no template is configured or found, or every copy failed). Each
\* lands in Data/ and in the instance root, where the installation's own
\* folder of that name is not tracked.
TemplateItems == {"config", "profiles", "MQL5", "bases"}

\* Mutant of _copy_user_profile_to_instance: a copied template takes the
\* place of the directory's content.
_copy_user_profile_to_instance_replaces(F, account, tpl) ==
    [F EXCEPT ![account] = IF tpl = {} THEN @
                           ELSE {".", "Data"} \cup {"Data/" \o item : item \in tpl}]

_copy_user_profile_to_instance(F, account, tpl) ==
    [F EXCEPT ![account] = @ \cup (IF tpl = {} THEN {} ELSE {"Data"})
                             \cup {"Data/" \o item : item \in tpl}]

\* Mutant of upsert: a plain INSERT OR REPLACE, which rewrites the whole row.
upsert_replace(R, account, nickname, t) ==
    [R EXCEPT ![account] = [nickname |-> nickname, status |-> "Offline",
                            pid |-> None, created |-> t]]

\* Mutant of upsert: an existing row is left as it is, nickname included.
upsert_keeps_nickname(R, account, nickname, t) ==
    IF account_exists(R, account) THEN R
    ELSE [R EXCEPT ![account] = [nickname |-> nickname, status |-> "Offline",
                                 pid |-> None, created |-> t]]

\* INSERT OR REPLACE ... COALESCE(existing status / pid / created, default).
upsert(R, account, nickname, t) ==
    IF account_exists(R, account)
    THEN [R EXCEPT ![account].nickname = nickname]
    ELSE [R EXCEPT ![account] = [nickname |-> nickname, status |-> "Offline",
                                 pid |-> None, created |-> t]]

\* What create_instance meets outside the process table:
\*   install  the installation folder: {} when the folder of MT5_PATH does
\*            not exist, else "." and the executables in it;
\*   rm_ok    whether removing the old instance directory works;
\*   copied   the executables that reach the instance directory: all of
\*            them when the tree copy works, those the item-by-item
\*            fallback manages otherwise;
\*   tpl      see _copy_user_profile_to_instance;
\*   sp       the outcome of the launch.
\* Values that the call never looks at are left at a default.
Installs == {{}, {"."}, {".", ExeNames[1]}}

CreateEnvs(st, account) ==
    {e \in [install : Installs, rm_ok : BOOLEAN, copied : SUBSET {ExeNames[1]},
            tpl : {{}, {"profiles"}}, sp : SpawnOutcomes(st.procs)] :
        /\ e.copied \subseteq e.install
        /\ ("." \notin e.install \/ "." \notin st.fs[account]) => e.rm_ok
        /\ ("." \notin e.install \/ ~e.rm_ok) => e.tpl = {}
        /\ ("." \notin e.install \/ ~e.rm_ok \/ e.copied = {}) => e.sp.kind = "raise"}

\* Mutant of create_instance: the installation is copied over the old
\* directory.
create_instance_merges(st, account, nickname, t, tough, env) ==
    LET closed == _close_all_mt5_processes(st, tough)
    IN  IF "." \notin env.install THEN [closed EXCEPT !.ret = FALSE]
        ELSE LET F0  == [closed.fs EXCEPT ![account] = @ \cup {"."} \cup env.copied]
                 F1  == _copy_user_profile_to_instance(F0, account, env.tpl)
                 F2  == _create_portable_data_structure(F1, account)
                 s1  == [closed EXCEPT !.fs = F2,
                                       !.reg = upsert(closed.reg, account, nickname, t)]
                 s2  == create_bat_launcher(s1, account)
             IN  IF ~s2.ret THEN s2
                 ELSE [launch_bat_file(s2, account, env.sp) EXCEPT !.ret = TRUE]

create_instance(st, account, nickname, t, tough, env) ==
    LET closed == _close_all_mt5_processes(st, tough)
    IN  IF "." \notin env.install THEN [closed EXCEPT !.ret = FALSE]
        ELSE IF "." \in closed.fs[account] /\ ~env.rm_ok THEN [closed EXCEPT !.ret = FALSE]
        ELSE LET F0  == [closed.fs EXCEPT ![account] = {"."} \cup env.copied]
                 F1  == _copy_user_profile_to_instance(F0, account, env.tpl)
                 F2  == _create_portable_data_structure(F1, account)
                 s1  == [closed EXCEPT !.fs = F2,
                                       !.launcher[account] = <<>>,
                                       !.reg = upsert(closed.reg, account, nickname, t)]
                 s2  == create_bat_launcher(s1, account)
             IN  IF ~s2.ret THEN s2
                 ELSE [launch_bat_file(s2, account, env.sp) EXCEPT !.ret = TRUE]

\* Mutant of ensure_instance: an instance that is not alive is created anew.
ensure_instance_recreates(st, account, nickname, t, tough, env) ==
    IF ~is_instance_alive(st.procs, st.reg, account)
    THEN create_instance(st, account, nickname, t, tough, env)
    ELSE [st EXCEPT !.ret = TRUE]

ensure_instance(st, account, nickname, t, tough, env) ==
    IF "." \notin st.fs[account] THEN create_instance(st, account, nickname, t, tough, env)
    ELSE IF ~is_instance_alive(st.procs, st.reg, account) THEN start_instance(st, account, env.sp)
    ELSE [st EXCEPT !.ret = TRUE]

\* ------------------------- profile template -------------------------
\* The value of an unset variable, and the None that the scan returns.
NoPath == ""

\* The entries of %APPDATA%\MetaQuotes\Terminal in os.listdir order; marker
\* says that the entry is a directory that holds MQL5.
ChildNames == {"A1", "B2"}
Children == [name : ChildNames, marker : BOOLEAN, mtime : 0..MaxMtime]
Listings ==
    {<<>>} \cup {<<c>> : c \in Children}
           \cup {l \in {<<c, d>> : c \in Children, d \in Children} : l[1].name # l[2].name}

RECURSIVE _auto_detect_scan(_, _, _)
\* The for loop of _auto_detect_profile_source.
_auto_detect_scan(children, newest, newest_mtime) ==
    IF children = <<>> THEN newest
    ELSE LET c == Head(children)
         IN  IF c.marker /\ c.mtime > newest_mtime
             THEN _auto_detect_scan(Tail(children), c.name, c.mtime)
             ELSE _auto_detect_scan(Tail(children), newest, newest_mtime)

_auto_detect_profile_source(appdata, root_is_dir, children) ==
    IF ~appdata THEN NoPath
    ELSE IF ~root_is_dir THEN NoPath
    ELSE _auto_detect_scan(children, NoPath, 0)

\* self.profile_source as __init__ sets it.
profile_source(explicit, appdata, root_is_dir, children) ==
    IF explicit # NoPath THEN explicit
    ELSE _auto_detect_profile_source(appdata, root_is_dir, children)

\* What __init__ reads: MT5_PROFILE_SOURCE (explicit), whether APPDATA is
\* set, whether the Terminal directory is there, and its entries.
Environs == [explicit : {NoPath, "T"}, appdata : BOOLEAN, root_is_dir : BOOLEAN,
             children : Listings]

\* Neither variable is set.
NoEnviron == [explicit |-> NoPath, appdata |-> FALSE, root_is_dir |-> FALSE,
              children |-> <<>>]

\* The controller before __init__ has run in environment e.
Unbuilt(e) == [environ |-> e, built |-> FALSE, profile_source |-> NoPath]

__init__(e) ==
    [environ |-> e, built |-> TRUE,
     profile_source |-> profile_source(e.explicit, e.appdata, e.root_is_dir, e.children)]

\* ------------------------------ monitor -----------------------------
AccountOrder == <<"1001", "10010">>

get_all_accounts(R) == SelectSeq(AccountOrder, LAMBDA a : account_exists(R, a))

\* Mutant of monitor_account: a Starting row is left alone.
monitor_account_skips_starting(R, P, account) ==
    LET old == R[account].status
        new == IF is_instance_alive(P, R, account) THEN "Online" ELSE "Offline"
    IN  IF new # old /\ old # "Starting"
        THEN update_account_status(R, account, new, None) ELSE R

\* One pass of the for loop body of monitor_instances.
monitor_account(R, P, account) ==
    LET old == R[account].status
        new == IF is_instance_alive(P, R, account) THEN "Online" ELSE "Offline"
    IN  IF new # old THEN update_account_status(R, account, new, None) ELSE R

RECURSIVE monitor_loop(_, _, _, _)
\* The for loop over `accounts`, cut short by an exception after k accounts.
monitor_loop(R, P, accounts, k) ==
    IF k = 0 \/ accounts = <<>> THEN R
    ELSE monitor_loop(monitor_account(R, P, Head(accounts)), P, Tail(accounts), k - 1)

\* Mutant of monitor_alert: every status change is notified.
monitor_alert_any_change(R, P, account) ==
    LET old == R[account].status
        new == IF is_instance_alive(P, R, account) THEN "Online" ELSE "Offline"
    IN  IF new # old THEN <<[account |-> account, old |-> old, new |-> new]>> ELSE <<>>

\* The notifications (alert mail and system log entry) of one pass of the
\* loop body.
monitor_alert(R, P, account) ==
    LET old == R[account].status
        new == IF is_instance_alive(P, R, account) THEN "Online" ELSE "Offline"
    IN  IF new # old /\ (\/ new = "Offline" /\ old = "Online"
                         \/ new = "Online" /\ old = "Offline")
        THEN <<[account |-> account, old |-> old, new |-> new]>>
        ELSE <<>>

RECURSIVE monitor_alerts(_, _, _, _)
\* The notifications of the for loop, in the order they are sent.
monitor_alerts(R, P, accounts, k) ==
    IF k = 0 \/ accounts = <<>> THEN <<>>
    ELSE monitor_alert(R, P, Head(accounts))
         \o monitor_alerts(monitor_account(R, P, Head(accounts)), P, Tail(accounts), k - 1)

\* ----------------------- registry failures --------------------------
\* How a call ends for its caller: an exception that escapes, or a value.
Raised == [raised |-> TRUE]

Returned(value) == [raised |-> FALSE, ret |-> value]

\* The calls as their caller sees them when the registry may fail: with
\* db_ok false, sqlite3.connect / execute raise sqlite3.Error for the
\* length of the call. The three registry methods and the SELECT of
\* is_instance_alive run outside any try block; the lifecycle methods wrap
\* their body in try / except Exception and return False.
account_exists_call(R, account, db_ok) ==
    IF db_ok THEN Returned(account_exists(R, account)) ELSE Raised

get_all_accounts_call(R, db_ok) ==
    IF db_ok THEN Returned(get_all_accounts(R)) ELSE Raised

update_account_status_call(R, account, status, pid, db_ok) ==
    IF db_ok THEN Returned(update_account_status(R, account, status, pid)) ELSE Raised

is_instance_alive_call(P, R, account, db_ok) ==
    IF db_ok THEN Returned(is_instance_alive(P, R, account)) ELSE Raised

create_instance_call(st, account, nickname, t, tough, env, db_ok) ==
    Returned(db_ok /\ create_instance(st, account, nickname, t, tough, env).ret)

start_instance_call(st, account, sp, db_ok) ==
    Returned(db_ok /\ start_instance(st, account, sp).ret)

stop_instance_call(st, account, tough, db_ok) ==
    Returned(db_ok /\ stop_instance(st, account, tough).ret)

restart_instance_call(st, account, tough, sp, db_ok) ==
    LET stopped == stop_instance_call(st, account, tough, db_ok)
        started == start_instance_call(stop_instance(st, account, tough), account, sp, db_ok)
    IN  Returned(stopped.ret /\ started.ret)

delete_instance_call(st, account, tough, rm_ok, db_ok) ==
    Returned(db_ok /\ delete_instance(st, account, tough, rm_ok).ret)

\* -------------------- order of external calls -----------------------
\* What a call does outside the process, in program order: "tx_begin" and
\* "tx_end" for one `with sqlite3.connect(...)` block, "spawn" for
\* subprocess.Popen, "terminate" and "kill" for the psutil calls, "sleep"
\* for time.sleep and psutil.wait_procs.
Tx == <<"tx_begin", "tx_end">>

Repeat(event, n) == [i \in 1..n |-> event]

is_instance_alive_events == Tx

\* Popen and the settling sleep, then the row update.
launch_events(sp) ==
    IF sp.kind = "raise" THEN <<"spawn">> ELSE <<"spawn", "sleep">> \o Tx

launch_bat_file_events(st, account, sp) ==
    IF st.launcher[account] = <<>> THEN <<>> ELSE launch_events(sp)

\* Mutant of stop_instance_events: the row update's transaction is opened
\* before the processes are signalled.
stop_instance_events_in_tx(st, account, tough) ==
    IF ~psutil THEN <<>>
    ELSE LET first  == _iter_instance_procs(st.procs, account)
             second == _iter_instance_procs(Signalled(st.procs, first, tough, 1), account)
         IN  <<"tx_begin">> \o Repeat("terminate", Cardinality(first)) \o <<"sleep">>
             \o Repeat("kill", Cardinality(second)) \o <<"tx_end">>

stop_instance_events(st, account, tough) ==
    IF ~psutil THEN <<>>
    ELSE LET first  == _iter_instance_procs(st.procs, account)
             second == _iter_instance_procs(Signalled(st.procs, first, tough, 1), account)
         IN  Repeat("terminate", Cardinality(first)) \o <<"sleep">>
             \o Repeat("kill", Cardinality(second)) \o Tx

start_instance_events(st, account, sp) ==
    is_instance_alive_events
    \o (IF is_instance_alive(st.procs, st.reg, account) THEN <<>>
        ELSE IF "." \notin st.fs[account] THEN <<>>
        ELSE IF st.launcher[account] # <<>> THEN launch_bat_file_events(st, account, sp)
        ELSE IF probe_exe(st.fs, account) = "" THEN <<>>
        ELSE launch_events(sp))

restart_instance_events(st, account, tough, sp) ==
    stop_instance_events(st, account, tough) \o <<"sleep">>
    \o start_instance_events(stop_instance(st, account, tough), account, sp)

delete_instance_events(st, account, tough) ==
    stop_instance_events(st, account, tough) \o Tx

_close_all_mt5_processes_events(st, tough) ==
    IF ~psutil THEN <<>>
    ELSE LET targets   == CloseTargets(st.procs)
             survivors == targets \cap Running(Signalled(st.procs, targets, tough, 1))
         IN  Repeat("terminate", Cardinality(targets)) \o <<"sleep">>
             \o Repeat("kill", Cardinality(survivors))

create_instance_events(st, account, tough, env) ==
    Tx \o _close_all_mt5_processes_events(st, tough) \o <<"sleep">>
    \o (IF "." \notin env.install THEN <<>>
        ELSE IF "." \in st.fs[account] /\ ~env.rm_ok THEN <<>>
        ELSE Tx \o (IF env.copied = {} THEN <<>> ELSE launch_events(env.sp)))

\* ------------------------------ actions -----------------------------
NoCall == [op |-> "none", account |-> "", ret |-> TRUE, term |-> {}, kill |-> {}]

\* A controller call: the handler's result becomes the state, and `last`
\* holds the call, its return value and the pids it signalled until the
\* next step.
Apply(r, op, account) ==
    /\ procs' = r.procs
    /\ reg' = r.reg
    /\ fs' = r.fs
    /\ launcher' = r.launcher
    /\ last' = [op |-> op, account |-> account, ret |-> r.ret,
                term |-> r.term, kill |-> r.kill]
    /\ UNCHANGED <<psutil, now, pending, template>>

CreateAt(account, names) ==
    \E nickname \in names, tough \in Toughness(procs, CloseTargets(procs)),
       env \in CreateEnvs(Cur, account) :
        Apply(create_instance(Cur, account, nickname, now, tough, env), "create", account)

Create(account) == CreateAt(account, {"Demo"})

Start(account) ==
    \E sp \in SpawnOutcomes(procs) :
        Apply(start_instance(Cur, account, sp), "start", account)

Stop(account) ==
    \E tough \in Toughness(procs, _iter_instance_procs(procs, account)) :
        Apply(stop_instance(Cur, account, tough), "stop", account)

Restart(account) ==
    \E tough \in Toughness(procs, _iter_instance_procs(procs, account)) :
        \E sp \in SpawnOutcomes(stop_instance(Cur, account, tough).procs) :
            Apply(restart_instance(Cur, account, tough, sp), "restart", account)

Delete(account) ==
    \E tough \in Toughness(procs, _iter_instance_procs(procs, account)), rm_ok \in BOOLEAN :
        Apply(delete_instance(Cur, account, tough, rm_ok), "delete", account)

\* With the directory in place ensure_instance looks at the launch outcome only.
Ensure(account) ==
    \E tough \in Toughness(procs, CloseTargets(procs)), env \in CreateEnvs(Cur, account) :
        /\ "." \in fs[account] =>
               /\ tough = [pid \in DOMAIN procs |-> 0]
               /\ env.install = {".", ExeNames[1]} /\ env.copied = {ExeNames[1]}
               /\ env.rm_ok /\ env.tpl = {}
        /\ Apply(ensure_instance(Cur, account, "Demo", now, tough, env), "ensure", account)

\* One cycle of the monitor thread; k < Len(accounts) is a cycle that an
\* exception ends after k accounts.
monitor_instances(k) ==
    /\ reg' = monitor_loop(reg, procs, get_all_accounts(reg), k)
    /\ last' = NoCall
    /\ UNCHANGED <<procs, fs, launcher, psutil, now, pending, template>>

Monitor == \E k \in 0..Len(get_all_accounts(reg)) : monitor_instances(k)

\* ---------------------------- environment ---------------------------
\* A process ends without the controller (crash, operator, task manager).
ExternalDeath(pid) ==
    /\ procs[pid] # NoProc
    /\ procs' = [procs EXCEPT ![pid] = NoProc]
    /\ last' = [NoCall EXCEPT !.op = "death", !.account = procs[pid]]
    /\ UNCHANGED <<reg, fs, launcher, psutil, now, pending, template>>

\* The OS gives a free pid to a program that is no terminal.
ForeignSpawn(pid) ==
    /\ procs[pid] = NoProc
    /\ procs' = [procs EXCEPT ![pid] = "foreign"]
    /\ last' = NoCall
    /\ UNCHANGED <<reg, fs, launcher, psutil, now, pending, template>>

\* A terminal of the account's instance directory comes up outside a
\* controller call: a launcher that took longer than the settling interval,
\* or an operator starting it by hand.
TerminalAppears(account, pid) ==
    /\ procs[pid] = NoProc
    /\ probe_exe(fs, account) # ""
    /\ procs' = [procs EXCEPT ![pid] = account]
    /\ last' = NoCall
    /\ UNCHANGED <<reg, fs, launcher, psutil, now, pending, template>>

\* An instance directory without its launcher file (a directory made before
\* launchers existed, or the file removed by hand).
LauncherLost(account) ==
    /\ launcher[account] # <<>>
    /\ launcher' = [launcher EXCEPT ![account] = <<>>]
    /\ last' = NoCall
    /\ UNCHANGED <<procs, reg, fs, psutil, now, pending, template>>

\* Time passes.
Tick ==
    /\ now < MaxClock
    /\ now' = now + 1
    /\ last' = NoCall
    /\ UNCHANGED <<procs, reg, fs, launcher, psutil, pending, template>>

Init ==
    /\ procs = [pid \in Pids |-> NoProc]
    /\ reg = [a \in Accounts |-> NoRow]
    /\ fs = [a \in Accounts |-> {}]
    /\ launcher = [a \in Accounts |-> <<>>]
    /\ psutil \in BOOLEAN
    /\ now = 0
    /\ last = NoCall
    /\ pending = {}
    /\ template = __init__(NoEnviron)

Next ==
    \/ \E a \in Accounts : Create(a)
    \/ \E a \in Accounts : Start(a)
    \/ \E a \in Accounts : Stop(a)
    \/ \E a \in Accounts : Restart(a)
    \/ \E a \in Accounts : Delete(a)
    \/ \E a \in Accounts : Ensure(a)
    \/ Monitor
    \/ \E pid \in DOMAIN procs : ExternalDeath(pid)
    \/ \E pid \in DOMAIN procs : ForeignSpawn(pid)
    \/ \E a \in Accounts, pid \in DOMAIN procs : TerminalAppears(a, pid)
    \/ \E a \in Accounts : LauncherLost(a)

Spec == Init /\ [][Next]_vars

\* The accounts table over time: creations at different clock readings,
\* between the calls that write rows.
NextRegistry ==
    \/ \E a \in Accounts : Create(a)
    \/ \E a \in Accounts : Start(a)
    \/ \E a \in Accounts : Stop(a)
    \/ \E a \in Accounts : Delete(a)
    \/ Monitor
    \/ \E pid \in DOMAIN procs : ExternalDeath(pid)
    \/ Tick

SpecRegistry == Init /\ [][NextRegistry]_vars

\* The construction of the controller in every environment.
Construct ==
    /\ ~template.built
    /\ template' = __init__(template.environ)
    /\ UNCHANGED <<procs, reg, fs, launcher, psutil, now, last, pending>>

InitProfile ==
    /\ procs = [pid \in Pids |-> NoProc]
    /\ reg = [a \in Accounts |-> NoRow]
    /\ fs = [a \in Accounts |-> {}]
    /\ launcher = [a \in Accounts |-> <<>>]
    /\ psutil \in BOOLEAN
    /\ now = 0
    /\ last = NoCall
    /\ pending = {}
    /\ template \in {Unbuilt(e) : e \in Environs}

NextProfile == Construct

SpecProfile == InitProfile /\ [][NextProfile]_vars

\* ------------------------- interleaved steps ------------------------
\* The monitor thread and the request threads take no lock, so a call on
\* one thread can run between two statements of a call on another. The
\* steps below cut the monitor's loop body and start_instance at the points
\* between their reads and their writes; a call that is cut is in `pending`
\* with what it has read. Thread 0 is the monitor.
RaceAccounts == {"1001"}
Threads == {1, 2}
RacePids == 1..(MaxPid + 1)

\* The loop body up to its test: the status of the snapshot row and the
\* liveness observed for the account.
monitor_observation(R, P, w) ==
    [w EXCEPT !.op = "write",
              !.new = IF is_instance_alive(P, R, w.account) THEN "Online" ELSE "Offline"]

\* The test and the row update of the loop body.
monitor_write(R, w) ==
    IF w.new # w.old THEN update_account_status(R, w.account, w.new, None) ELSE R

\* start_instance past its liveness check.
start_instance_launch(st, account, sp) ==
    IF "." \notin st.fs[account] THEN [st EXCEPT !.ret = FALSE]
    ELSE IF st.launcher[account] # <<>> THEN launch_bat_file(st, account, sp)
    ELSE IF probe_exe(st.fs, account) = "" THEN [st EXCEPT !.ret = FALSE]
    ELSE LET F == [st.fs EXCEPT ![account] = @ \cup {"Data"}]
         IN  IF sp.kind = "raise" THEN [st EXCEPT !.fs = F, !.ret = FALSE]
             ELSE LET P     == Spawned(st.procs, account, sp)
                      found == _find_mt5_pid_for_account(P, account)
                      pid   == IF found # None THEN found ELSE sp.pid
                  IN  [st EXCEPT !.fs = F,
                                 !.procs = P,
                                 !.reg = update_account_status(st.reg, account, "Online", pid),
                                 !.ret = TRUE]

\* The monitor reads the rows (get_all_accounts) and comes to `account`.
MonitorSnapshot(account) ==
    /\ account_exists(reg, account)
    /\ \A w \in pending : w.thread # 0
    /\ pending' = pending \cup {[op |-> "snapshot", account |-> account, thread |-> 0,
                                 old |-> reg[account].status, new |-> ""]}
    /\ UNCHANGED <<procs, reg, fs, launcher, psutil, now, last, template>>

\* The monitor calls is_instance_alive for the account.
MonitorCheck ==
    \E w \in pending :
        /\ w.op = "snapshot"
        /\ pending' = (pending \ {w}) \cup {monitor_observation(reg, procs, w)}
        /\ UNCHANGED <<procs, reg, fs, launcher, psutil, now, last, template>>

\* The monitor compares and writes the row.
MonitorWrite ==
    \E w \in pending :
        /\ w.op = "write"
        /\ reg' = monitor_write(reg, w)
        /\ pending' = pending \ {w}
        /\ last' = [NoCall EXCEPT !.op = "monitor_write", !.account = w.account,
                                  !.ret = (w.new # w.old)]
        /\ UNCHANGED <<procs, fs, launcher, psutil, now, template>>

\* A request thread enters start_instance and runs the liveness check.
StartCheck(account, thread) ==
    /\ \A w \in pending : w.thread # thread
    /\ IF is_instance_alive(procs, reg, account)
       THEN Apply([Cur EXCEPT !.ret = TRUE], "start", account)
       ELSE /\ pending' = pending \cup {[op |-> "launch", account |-> account,
                                         thread |-> thread, old |-> "", new |-> ""]}
            /\ UNCHANGED <<procs, reg, fs, launcher, psutil, now, last, template>>

\* The thread goes on to launch and returns.
StartLaunch(thread) ==
    \E w \in pending : \E sp \in SpawnOutcomes(procs) :
        /\ w.op = "launch" /\ w.thread = thread
        /\ LET r == start_instance_launch(Cur, w.account, sp)
           IN  /\ procs' = r.procs
               /\ reg' = r.reg
               /\ fs' = r.fs
               /\ launcher' = r.launcher
               /\ last' = [op |-> "start", account |-> w.account, ret |-> r.ret,
                           term |-> r.term, kill |-> r.kill]
        /\ pending' = pending \ {w}
        /\ UNCHANGED <<psutil, now, template>>

InitRace ==
    /\ procs = [pid \in RacePids |-> NoProc]
    /\ reg = [a \in Accounts |-> NoRow]
    /\ fs = [a \in Accounts |-> {}]
    /\ launcher = [a \in Accounts |-> <<>>]
    /\ psutil \in BOOLEAN
    /\ now = 0
    /\ last = NoCall
    /\ pending = {}
    /\ template = __init__(NoEnviron)

\* create_instance with no other call under way.
CreateAlone(account) == pending = {} /\ Create(account)

NextRace ==
    \/ \E a \in RaceAccounts : CreateAlone(a)
    \/ \E a \in RaceAccounts : Stop(a)
    \/ \E a \in RaceAccounts : Delete(a)
    \/ \E a \in RaceAccounts : MonitorSnapshot(a)
    \/ MonitorCheck
    \/ MonitorWrite
    \/ \E a \in RaceAccounts, t \in Threads : StartCheck(a, t)
    \/ \E t \in Threads : StartLaunch(t)

SpecRace == InitRace /\ [][NextRace]_vars

\* ============================== claims ==============================
\* path has prefix as a leading directory: prefix, a separator, more.
has_prefix_sep(prefix, path) ==
    /\ Len(path) > Len(prefix)
    /\ SubSeq(path, 1, Len(prefix)) = prefix
    /\ path[Len(prefix) + 1] = Sep

\* The running terminals that belong to the account: executable path or
\* working directory inside its instance directory.
Owned(P, account) ==
    {pid \in Running(P) :
        /\ proc_name(P[pid]) \in {"terminal64.exe", "terminal.exe"}
        /\ \/ has_prefix_sep(get_instance_path(account), proc_exe(P[pid]))
           \/ has_prefix_sep(get_instance_path(account), proc_cwd(P[pid]))}

\* The process table a moment later, when the OS may have given a free pid
\* to an unrelated program.
PidReused(P) == {P} \cup {[P EXCEPT ![pid] = "foreign"] : pid \in Free(P)}

\* C1: whenever is_instance_alive(id) is true, a terminal process whose
\* executable path or working directory lies inside id's instance directory
\* is running.
C1_AliveMeansOwnProcess ==
    \A a \in Accounts : is_instance_alive(procs, reg, a) => Owned(procs, a) # {}

\* C2: when stop_instance(id) returns right after start_instance(id) returned
\* success, and every process it matched left on terminate(),
\* is_instance_alive(id) is false from then on, also once an unrelated
\* program has taken a free pid.
C2_StoppedIsNotAlive ==
    [][(/\ last.op = "start" /\ last.ret
        /\ last'.op = "stop" /\ last'.account = last.account /\ last'.kill = {})
       => \A P \in PidReused(procs') : ~is_instance_alive(P, reg', last'.account)]_vars

\* C3 (as stated): after delete_instance(id) the row of id is gone and the
\* instance directory of id does not exist.
C3_DeleteRemovesRowAndDirectory ==
    last.op = "delete" =>
        /\ ~account_exists(reg, last.account)
        /\ "." \notin fs[last.account]

\* C3 (amended): delete_instance(id) returns success with the row of id
\* gone, whatever the stop step returned and whether or not the directory
\* could be removed; the directory is gone when rmtree could remove it and
\* is otherwise left as it was.
C3_DeleteRemovesRow ==
    /\ last.op = "delete" => last.ret /\ ~account_exists(reg, last.account)
    /\ \A a \in Accounts, rm_ok \in BOOLEAN :
         \A tough \in Toughness(procs, _iter_instance_procs(procs, a)) :
            LET r == delete_instance(Cur, a, tough, rm_ok)
            IN  /\ r.ret /\ ~account_exists(r.reg, a)
                /\ rm_ok => "." \notin r.fs[a]
                /\ ~rm_ok => r.fs[a] = fs[a] /\ r.launcher[a] = launcher[a]

\* C3 witness: delete_instance returned with the row gone although the
\* directory is still there.
C3_Witness ==
    /\ last.op = "delete" /\ last.ret
    /\ ~account_exists(reg, last.account)
    /\ "." \in fs[last.account]

\* C4: the created timestamp of a row never changes while the row exists,
\* however often create_instance runs again for the id, and a create_instance
\* call returns what the same call would return if the id had no row.
C4_CreatedSetOnce ==
    /\ [](\A a \in Accounts, tough \in Toughness(procs, CloseTargets(procs)) :
            \A env \in CreateEnvs(Cur, a) :
                create_instance(Cur, a, "Demo", now, tough, env).ret
                = create_instance([Cur EXCEPT !.reg[a] = NoRow], a, "Demo", now, tough, env).ret)
    /\ [][\A a \in Accounts :
            (account_exists(reg, a) /\ account_exists(reg', a))
                => reg'[a].created = reg[a].created]_vars

\* C4 witness: create_instance has just succeeded for an id whose row is
\* older than this call.
C4_Witness ==
    /\ last.op = "create" /\ last.ret
    /\ account_exists(reg, last.account)
    /\ reg[last.account].created < now

\* C5: once the process of an Online account has died outside the
\* controller, a complete monitor cycle leaves the account Offline, whatever
\* else the process table holds by then.
C5_DeathSeenByNextCycle ==
    \A a \in Accounts :
        (/\ last.op = "death" /\ last.account = a
         /\ reg[a].status = "Online" /\ Owned(procs, a) = {})
        => \A P \in PidReused(procs) :
              LET accounts == get_all_accounts(reg)
              IN  monitor_loop(reg, P, accounts, Len(accounts))[a].status = "Offline"

\* C6: process resolution for an account (the pid lookup and the scan used
\* by liveness and stop) yields only processes inside that account's own
\* instance directory, never one of an account whose id merely starts with
\* this id.
C6_MatchesOwnDirectoryOnly ==
    \A a \in Accounts :
        /\ _iter_instance_procs(procs, a) \subseteq Owned(procs, a)
        /\ _find_mt5_pid_for_account(procs, a) \in Owned(procs, a) \cup {None}

C8_OnlineOnlyWithProcess ==
    [][\A a \in Accounts :
          (reg[a].status # "Online" /\ reg'[a].status = "Online")
              => Owned(procs', a) # {}]_vars

\* C9: every process stop_instance(id) sends terminate() or kill() to is a
\* terminal inside id's own instance directory.
C9_StopSignalsOwnOnly ==
    [][last'.op = "stop"
          => (last'.term \cup last'.kill) \subseteq Owned(procs, last'.account)]_vars

\* C10: after stop_instance(id) ran its terminate/kill sequence the row of
\* id has status Offline and a null pid.
C10_StopClearsRow ==
    (last.op = "stop" /\ psutil /\ account_exists(reg, last.account)) =>
        /\ reg[last.account].status = "Offline"
        /\ reg[last.account].pid = None

\* C11: when start_instance(id) issues a launch (through the launcher file
\* or by running the executable directly) and the spawn call returns, it
\* reports success; if a process is resolved for id after the settling
\* interval the row is Online with that pid, and if none is resolved the row
\* is Starting.
C11_LaunchRecordsResolution ==
    \A a \in Accounts : \A sp \in SpawnOutcomes(procs) :
        (/\ account_exists(reg, a)
         /\ ~is_instance_alive(procs, reg, a)
         /\ "." \in fs[a]
         /\ launcher[a] # <<>> \/ probe_exe(fs, a) # ""
         /\ sp.kind # "raise")
        => LET r     == start_instance(Cur, a, sp)
               found == _find_mt5_pid_for_account(r.procs, a)
           IN  /\ r.ret
               /\ found # None => r.reg[a].status = "Online" /\ r.reg[a].pid = found
               /\ found = None => r.reg[a].status = "Starting"

\* C12: create_instance(id) returns failure when provisioning failed (no
\* installation folder, old directory not removable, no executable in the
\* new directory); when provisioning worked and the launch failed it returns
\* success and the row of id is Offline afterwards, whatever the row said
\* before.
C12_CreateWithoutLaunchIsOffline ==
    \A a \in Accounts, tough \in Toughness(procs, CloseTargets(procs)) :
        \A env \in CreateEnvs(Cur, a) :
            LET r           == create_instance(Cur, a, "Demo", now, tough, env)
                provisioned == /\ "." \in env.install
                               /\ "." \in fs[a] => env.rm_ok
                               /\ env.copied # {}
            IN  /\ ~provisioned => ~r.ret
                /\ (provisioned /\ env.sp.kind = "raise")
                       => r.ret /\ r.reg[a].status = "Offline"

\* C13: start_instance(id) called while id is resolvable as alive returns
\* success and changes nothing: no process is spawned, and the registry, the
\* instance directories and the launchers are as before.
C13_StartWhenAliveIsNoOp ==
    /\ [](\A a \in Accounts : \A sp \in SpawnOutcomes(procs) :
            is_instance_alive(procs, reg, a)
                => start_instance(Cur, a, sp) = [Cur EXCEPT !.ret = TRUE])
    /\ [][(last'.op = "start" /\ is_instance_alive(procs, reg, last'.account))
            => /\ last'.ret
               /\ procs' = procs /\ reg' = reg /\ fs' = fs /\ launcher' = launcher]_vars

\* C13 witness: start_instance has just returned success for an account that
\* is alive while its row says Offline, which no launch would have left.
C13_Witness ==
    /\ last.op = "start" /\ last.ret
    /\ account_exists(reg, last.account)
    /\ reg[last.account].status = "Offline"
    /\ is_instance_alive(procs, reg, last.account)

\* Every process table over the pids of the model.
AnyProcs == [DOMAIN procs -> Owners \cup {NoProc}]

C15_FailureSkipsNoAccount ==
    LET accs == get_all_accounts(reg)
        n    == Len(accs)
    IN  \A k \in 0..n : \A i \in (k + 2)..n :
            monitor_loop(reg, procs, accs, k)[accs[i]]
            = monitor_account(reg, procs, accs[i])[accs[i]]

\* C16: without psutil, process resolution finds nothing and
\* is_instance_alive(id) is false, for every account, every process table
\* and whatever status and pid the row of the account holds.
C16_NoPsutilNothingAlive ==
    ~psutil =>
        \A a \in Accounts, P \in AnyProcs :
            \A row \in [status : {"Offline", "Starting", "Online"}, pid : Pids \cup {None}] :
                LET R == [reg EXCEPT ![a].status = row.status, ![a].pid = row.pid]
                IN  /\ _find_mt5_pid_for_account(P, a) = None
                    /\ _iter_instance_procs(P, a) = {}
                    /\ ~is_instance_alive(P, R, a)

\* C16 witness: psutil is missing while a row is Online with the pid of a
\* running process.
C16_Witness ==
    /\ ~psutil
    /\ \E a \in Accounts :
          /\ reg[a].status = "Online"
          /\ reg[a].pid # None
          /\ reg[a].pid \in Running(procs)

\* C17: no registry or lifecycle operation lets an exception escape to its
\* caller, also when the registry fails: each returns a value.
C17_NoExceptionEscapes ==
    \A a \in Accounts, db_ok \in BOOLEAN :
        /\ ~account_exists_call(reg, a, db_ok).raised
        /\ ~get_all_accounts_call(reg, db_ok).raised
        /\ ~update_account_status_call(reg, a, "Offline", None, db_ok).raised
        /\ ~is_instance_alive_call(procs, reg, a, db_ok).raised
        /\ \A sp \in SpawnOutcomes(procs) :
              ~start_instance_call(Cur, a, sp, db_ok).raised
        /\ \A tough \in Toughness(procs, _iter_instance_procs(procs, a)) :
              /\ ~stop_instance_call(Cur, a, tough, db_ok).raised
              /\ ~delete_instance_call(Cur, a, tough, TRUE, db_ok).raised
              /\ \A sp \in SpawnOutcomes(stop_instance(Cur, a, tough).procs) :
                    ~restart_instance_call(Cur, a, tough, sp, db_ok).raised
        /\ \A tough \in Toughness(procs, CloseTargets(procs)) :
              \A env \in CreateEnvs(Cur, a) :
                  ~create_instance_call(Cur, a, "Demo", now, tough, env, db_ok).raised

\* C18: when a process that stop_instance(id) signalled is still running
\* after the kill, stop_instance returns failure and the registry is as it
\* was before the call.
C18_SurvivorLeavesRowStale ==
    [][(/\ last'.op = "stop" /\ psutil
        /\ (last'.term \cup last'.kill) \cap Running(procs') # {})
       => ~last'.ret /\ reg' = reg]_vars

\* C19: when start_instance(id) finds id not alive and then has no instance
\* directory, or neither launcher nor executable, or the spawn call raises,
\* it returns failure, the registry is as before (an Offline row stays
\* Offline) and no process was added.
C19_FailedStartKeepsRow ==
    /\ [](\A a \in Accounts : \A sp \in SpawnOutcomes(procs) :
            (/\ ~is_instance_alive(procs, reg, a)
             /\ \/ "." \notin fs[a]
                \/ launcher[a] = <<>> /\ probe_exe(fs, a) = ""
                \/ sp.kind = "raise")
            => LET r == start_instance(Cur, a, sp)
               IN  ~r.ret /\ r.reg = reg /\ r.procs = procs)
    /\ [][(last'.op = "start" /\ ~last'.ret) => reg' = reg /\ procs' = procs]_vars

\* C19 witness: start_instance has just failed for an account that has its
\* directory, and the row is Offline.
C19_Witness ==
    /\ last.op = "start" /\ ~last.ret
    /\ "." \in fs[last.account]
    /\ account_exists(reg, last.account)
    /\ reg[last.account].status = "Offline"

\* C20: the upsert of create_instance inserts a row with the nickname,
\* status Offline, no pid and the current time when the id has no row, and
\* when the id has a row changes its nickname only; other rows are untouched.
C20_UpsertKeepsRow ==
    \A a \in Accounts, nickname \in {"Demo", "Live"}, t \in Times :
        LET R == upsert(reg, a, nickname, t)
        IN  /\ \A b \in Accounts \ {a} : R[b] = reg[b]
            /\ account_exists(reg, a) => R[a] = [reg[a] EXCEPT !.nickname = nickname]
            /\ ~account_exists(reg, a) =>
                  R[a] = [nickname |-> nickname, status |-> "Offline",
                          pid |-> None, created |-> t]

\* C20 witness: create_instance has just run its upsert on an older Online
\* row with a pid and, its launch failing, left status and pid as they were.
C20_Witness ==
    /\ last.op = "create" /\ last.ret
    /\ reg[last.account].created < now
    /\ reg[last.account].status = "Online"
    /\ reg[last.account].pid # None
    /\ reg[last.account].pid \notin Running(procs)

\* C21: every change of a row's status is a step of the per-account state
\* machine: no row -> Offline (or on to Starting / Online) in a create,
\* Offline -> Starting in a launch, Starting -> Online, Online -> Offline by
\* stop, restart or the monitor, Offline -> Online by the monitor only, and
\* removal of the row by delete.
C21_StatusStateMachine ==
    [][\A a \in Accounts :
          LET old  == reg[a].status
              new  == reg'[a].status
              call == IF last'.account = a THEN last'.op ELSE "other"
          IN  old # new =>
                \/ old = "Absent" /\ call \in {"create", "ensure"}
                \/ old = "Offline" /\ new = "Starting"
                     /\ call \in {"create", "start", "restart", "ensure"}
                \/ old = "Starting" /\ new = "Online"
                \/ old = "Online" /\ new = "Offline" /\ call \in {"stop", "restart", "other"}
                \/ old = "Online" /\ new = "Starting" /\ call = "restart"
                \/ old = "Offline" /\ new = "Online" /\ last'.op = "none"
                \/ new = "Absent" /\ call = "delete"]_vars

\* C22: is_instance_alive(id) is true only if the recorded pid is running
\* under one of the terminal executable names, or the scan finds a process
\* for id; a recorded pid now held by an unrelated program does not count.
C22_ReusedPidNotAlive ==
    \A a \in Accounts :
        is_instance_alive(procs, reg, a) =>
            \/ /\ reg[a].pid \in Running(procs)
               /\ proc_name(procs[reg[a].pid]) \in {"terminal64.exe", "terminal.exe"}
            \/ _iter_instance_procs(procs, a) # {}

\* C23: create_instance(id) sends terminate() or kill() to no process that
\* runs from the instance directory of another account.
C23_CreateSparesOtherAccounts ==
    [][last'.op = "create" =>
          \A b \in Accounts \ {last'.account} :
              (last'.term \cup last'.kill) \cap Owned(procs, b) = {}]_vars

\* C24: stop_instance(id) sends terminate() to exactly the processes matched
\* to id, and after the grace interval kill() to exactly those of them that
\* are still running, and to none that exited; it then returns.
C24_StopEscalatesOnce ==
    /\ [](\A a \in Accounts :
            \A tough \in Toughness(procs, _iter_instance_procs(procs, a)) :
                LET r == stop_instance(Cur, a, tough)
                IN  psutil =>
                      /\ r.term = _iter_instance_procs(procs, a)
                      /\ r.kill = {pid \in r.term : tough[pid] > 0}
                      /\ Running(r.procs) = Running(procs) \ {pid \in r.term : tough[pid] < 2}
                      /\ r.ret \in BOOLEAN)
    /\ [][last'.op = "stop" =>
            /\ last'.kill \subseteq last'.term
            /\ last'.term \subseteq Running(procs)
            /\ (last'.term \ last'.kill) \cap Running(procs') = {}]_vars

\* C24 witness: stop_instance has just ended a process with kill() after it
\* ignored terminate().
C24_Witness ==
    /\ last.op = "stop" /\ last.ret
    /\ last.kill # {}
    /\ last.kill \cap Running(procs) = {}

\* C25: one complete monitor cycle leaves every row Online or Offline, and
\* Online exactly when is_instance_alive holds for the account; a Starting
\* row whose process is resolvable becomes Online.
C25_CycleReconcilesAll ==
    LET accs == get_all_accounts(reg)
        R1   == monitor_loop(reg, procs, accs, Len(accs))
    IN  \A a \in Accounts :
            account_exists(reg, a) =>
                /\ R1[a].status \in {"Online", "Offline"}
                /\ R1[a].status = "Online" <=> is_instance_alive(procs, R1, a)
                /\ (reg[a].status = "Starting" /\ is_instance_alive(procs, reg, a))
                       => R1[a].status = "Online"

\* C25 witness: a Starting row whose terminal has come up, and a second row
\* that has drifted too, before the cycle that reconciles both.
C25_Witness ==
    /\ \E a \in Accounts :
          /\ reg[a].status = "Starting"
          /\ _find_mt5_pid_for_account(procs, a) # None
    /\ \A a \in Accounts :
          /\ account_exists(reg, a)
          /\ reg[a].status = "Online" <=> ~is_instance_alive(procs, reg, a)

\* C26: restart_instance(id) is stop_instance(id) followed by
\* start_instance(id) on the state the stop left, also when the stop
\* failed, and it returns success exactly when both did.
C26_RestartIsStopThenStart ==
    \A a \in Accounts :
        \A tough \in Toughness(procs, _iter_instance_procs(procs, a)) :
            LET stopped == stop_instance(Cur, a, tough)
            IN  \A sp \in SpawnOutcomes(stopped.procs) :
                    LET started == start_instance(stopped, a, sp)
                        r       == restart_instance(Cur, a, tough, sp)
                    IN  /\ r.ret <=> (stopped.ret /\ started.ret)
                        /\ r.procs = started.procs /\ r.reg = started.reg
                        /\ r.fs = started.fs /\ r.launcher = started.launcher
                        /\ r.term = stopped.term /\ r.kill = stopped.kill

\* C26 witness: restart_instance has just returned failure because its stop
\* could not run (no psutil), and its start has launched the terminal.
C26_Witness ==
    /\ last.op = "restart" /\ ~last.ret
    /\ ~psutil
    /\ reg[last.account].status = "Starting"
    /\ Owned(procs, last.account) # {}

\* C27: when the instance directory of id exists, a successful
\* create_instance(id) leaves a directory that holds the copied installation
\* and the data skeleton only, nothing the old directory held, and a newly
\* written launcher; when the old directory cannot be removed it returns
\* failure with nothing added to the directory and the registry as it was.
C27_RecreateStartsClean ==
    \A a \in Accounts, tough \in Toughness(procs, CloseTargets(procs)) :
        \A env \in CreateEnvs(Cur, a) :
            "." \in fs[a] =>
                LET stale == {"old.log", ExeNames[2]}
                    st0 == [Cur EXCEPT !.fs[a] = @ \cup stale, !.launcher[a] = <<"old">>]
                    r   == create_instance(st0, a, "Demo", now, tough, env)
                IN  /\ r.ret =>
                          /\ r.fs[a] \cap stale = {}
                          /\ r.fs[a] = {"."} \cup env.copied \cup Skeleton
                          /\ r.launcher[a]
                               = path_join(get_instance_path(a), <<probe_exe(r.fs, a)>>)
                    /\ ("." \in env.install /\ ~env.rm_ok) =>
                          /\ ~r.ret
                          /\ r.fs[a] \subseteq st0.fs[a] /\ r.reg = reg

\* C27 witness: create_instance has just succeeded for an id that had a row
\* (Online, with the pid of a process that is gone) and so a directory.
C27_Witness ==
    /\ last.op = "create" /\ last.ret
    /\ reg[last.account].status = "Online"
    /\ reg[last.account].pid # None
    /\ reg[last.account].pid \notin Running(procs)
    /\ launcher[last.account] # <<>>

\* C28: when no executable of the installation reaches the instance
\* directory (tree copy and item-by-item fallback both fail),
\* create_instance returns failure without having made the data skeleton or
\* written the registry.
C28_CopyFailureAborts ==
    \A a \in Accounts, tough \in Toughness(procs, CloseTargets(procs)) :
        \A env \in CreateEnvs(Cur, a) :
            (/\ "." \in env.install
             /\ "." \in fs[a] => env.rm_ok
             /\ env.copied = {})
            => LET r == create_instance(Cur, a, "Demo", now, tough, env)
               IN  /\ ~r.ret
                   /\ r.reg = reg
                   /\ r.fs[a] \cap Skeleton = {}

\* C29: whatever part of the template could be copied, none included,
\* create_instance returns the same value and leaves the same registry,
\* processes and launcher as with no template at all, and the template
\* copy removes no file of the directory.
C29_TemplateIsBestEffort ==
    \A a \in Accounts, tough \in Toughness(procs, CloseTargets(procs)) :
        \A env \in {e \in CreateEnvs(Cur, a) : e.tpl # {}} :
            LET r  == create_instance(Cur, a, "Demo", now, tough, env)
                r0 == create_instance(Cur, a, "Demo", now, tough, [env EXCEPT !.tpl = {}])
            IN  /\ r.ret = r0.ret
                /\ r.reg = r0.reg /\ r.procs = r0.procs /\ r.launcher = r0.launcher
                /\ r0.fs[a] \subseteq r.fs[a]
                /\ \A tpl \in {{}, {"profiles"}, TemplateItems} :
                      fs[a] \subseteq _copy_user_profile_to_instance(fs, a, tpl)[a]

\* C29 witness: create_instance has just succeeded and launched, leaving the
\* profiles folder of the data tree, which skeleton synthesis makes when the
\* template did not.
C29_Witness ==
    /\ last.op = "create" /\ last.ret
    /\ "Data/profiles" \in fs[last.account]
    /\ reg[last.account].status = "Starting"

\* The calls that act on other processes or wait for them.
ProcessCalls == {"spawn", "terminate", "kill", "sleep"}

\* Transactions of a trace are closed in turn, and none is open at a
\* process call.
NoTxAcrossProcessCall(trace) ==
    \A i \in DOMAIN trace :
        LET open == Cardinality({j \in 1..(i - 1) : trace[j] = "tx_begin"})
                    - Cardinality({j \in 1..(i - 1) : trace[j] = "tx_end"})
        IN  /\ trace[i] \in ProcessCalls => open = 0
            /\ trace[i] = "tx_begin" => open = 0
            /\ trace[i] = "tx_end" => open = 1

\* C30: in every lifecycle operation each registry transaction is opened
\* and completed between process calls: none is open while a process is
\* spawned, terminated or killed or while the operation sleeps.
C30_NoTxAcrossProcessCalls ==
    \A a \in Accounts :
        /\ NoTxAcrossProcessCall(is_instance_alive_events)
        /\ \A sp \in SpawnOutcomes(procs) :
              NoTxAcrossProcessCall(start_instance_events(Cur, a, sp))
        /\ \A tough \in Toughness(procs, _iter_instance_procs(procs, a)) :
              /\ NoTxAcrossProcessCall(stop_instance_events(Cur, a, tough))
              /\ NoTxAcrossProcessCall(delete_instance_events(Cur, a, tough))
              /\ \A sp \in SpawnOutcomes(stop_instance(Cur, a, tough).procs) :
                    NoTxAcrossProcessCall(restart_instance_events(Cur, a, tough, sp))
        /\ \A tough \in Toughness(procs, CloseTargets(procs)) :
              \A env \in CreateEnvs(Cur, a) :
                  NoTxAcrossProcessCall(create_instance_events(Cur, a, tough, env))

\* C30 witness: stop_instance has just signalled a process and then written
\* the row.
C30_Witness ==
    /\ last.op = "stop" /\ psutil
    /\ last.term # {}
    /\ account_exists(reg, last.account)
    /\ reg[last.account].status = "Offline"

\* C31: the template is the configured path when there is one; otherwise,
\* among the entries of the parent that hold the marker, one of greatest
\* modification time, and none when no entry holds the marker or the parent
\* is missing.
C31_TemplateResolution ==
    template.built =>
        LET e     == template.environ
            r     == template.profile_source
            cands == {i \in DOMAIN e.children : e.children[i].marker}
        IN  /\ e.explicit # NoPath => r = e.explicit
            /\ e.explicit = NoPath =>
                  IF e.appdata /\ e.root_is_dir /\ cands # {}
                  THEN \E i \in cands :
                          /\ r = e.children[i].name
                          /\ \A j \in cands : e.children[j].mtime <= e.children[i].mtime
                  ELSE r = NoPath

\* C32: a create_instance(id) that returns failure for an id without a row
\* leaves the id without a row.
C32_FailedCreateLeavesNoRow ==
    [][(/\ last'.op = "create" /\ ~last'.ret
        /\ ~account_exists(reg, last'.account))
       => ~account_exists(reg', last'.account)]_vars

\* C33: when a monitor write follows a stop_instance(id) that returned
\* success, with no other call in between, it does not set the row of id
\* Online, whenever the monitor made its liveness observation.
C33_NoOnlineAfterStop ==
    [][(/\ last.op = "stop" /\ last.ret
        /\ last'.op = "monitor_write" /\ last'.account = last.account)
       => reg'[last.account].status # "Online"]_vars

\* C34: a row appears for an id only in a create_instance(id) call: no
\* monitor step brings back the row that delete_instance removed, also when
\* the monitor took the account from a snapshot read before the delete.
C34_NoRowAfterDelete ==
    /\ [](\A w \in pending :
            ~account_exists(reg, w.account)
                => /\ monitor_write(reg, [w EXCEPT !.new = "Online"]) = reg
                   /\ monitor_write(reg, [w EXCEPT !.new = "Offline"]) = reg)
    /\ [][\A a \in Accounts :
            (~account_exists(reg, a) /\ account_exists(reg', a))
                => last'.op = "create" /\ last'.account = a]_vars

\* C34 witness: the monitor has just run its write for an account whose row
\* was deleted after the snapshot, and there is still no row.
C34_Witness ==
    /\ last.op = "monitor_write" /\ last.ret
    /\ ~account_exists(reg, last.account)

\* C35: when a start_instance(id) call returns right after another
\* start_instance(id) call returned success, and a terminal of id is
\* running by then, the later call has spawned no process, also when the
\* two calls ran at the same time on two threads.
C35_NoSecondSpawn ==
    [][(/\ last.op = "start" /\ last.ret
        /\ last'.op = "start" /\ last'.account = last.account
        /\ psutil /\ Owned(procs, last.account) # {})
       => Running(procs') \subseteq Running(procs)]_vars

\* C36: a row whose status is Online holds a pid, the pid of a running
\* terminal.
C36_OnlineHasPid ==
    \A a \in Accounts :
        (account_exists(reg, a) /\ reg[a].status = "Online") => reg[a].pid # None

\* C37: when delete_instance(id) has returned success, no terminal of id's
\* instance directory is running.
C37_NoOrphanAfterDelete ==
    (last.op = "delete" /\ last.ret) => Owned(procs, last.account) = {}

\* The calls of the controller that `last` records.
ControllerCalls == {"create", "start", "stop", "restart", "delete", "ensure"}

\* C38: an operation on account A leaves the row of every other account B
\* as it was: the controller calls, update_account_status and the monitor's
\* pass over A.
C38_OtherRowsUnchanged ==
    /\ [](\A a \in Accounts : \A b \in Accounts \ {a} :
            /\ \A status \in {"Online", "Offline", "Starting"}, pid \in {None} \cup Pids :
                  update_account_status(reg, a, status, pid)[b] = reg[b]
            /\ account_exists(reg, a) => monitor_account(reg, procs, a)[b] = reg[b])
    /\ [][\A b \in Accounts :
            (last'.op \in ControllerCalls /\ b # last'.account) => reg'[b] = reg[b]]_vars

\* C38 witness: stop_instance has set the row of one account Offline while
\* the row of the other account says Online.
C38_Witness ==
    /\ last.op = "stop" /\ last.ret
    /\ account_exists(reg, last.account)
    /\ reg[last.account].status = "Offline"
    /\ \E b \in Accounts \ {last.account} :
          account_exists(reg, b) /\ reg[b].status = "Online"

\* C39: ensure_instance(id) is create_instance when the instance directory
\* is missing, start_instance when the directory is there and id is not
\* alive, and otherwise returns success and changes nothing; with the
\* directory there it removes no file and leaves the launcher alone.
C39_EnsureKeepsDirectory ==
    /\ [](\A a \in Accounts : \A env \in CreateEnvs(Cur, a) :
            LET tough == [pid \in DOMAIN procs |-> 0]
                r     == ensure_instance(Cur, a, "Demo", now, tough, env)
            IN  IF "." \notin fs[a]
                THEN r = create_instance(Cur, a, "Demo", now, tough, env)
                ELSE IF is_instance_alive(procs, reg, a)
                     THEN r = [Cur EXCEPT !.ret = TRUE]
                     ELSE r = start_instance(Cur, a, env.sp))
    /\ [][(last'.op = "ensure" /\ "." \in fs[last'.account])
            => /\ \A a \in Accounts : fs[a] \subseteq fs'[a]
               /\ launcher' = launcher
               /\ is_instance_alive(procs, reg, last'.account)
                    => /\ last'.ret
                       /\ procs' = procs /\ reg' = reg /\ fs' = fs]_vars

\* C39 witness: ensure_instance has returned success for an instance whose
\* directory holds no launcher, so the directory was there before the call
\* (create_instance succeeds only once it has written the launcher), and
\* the files made before the call are in it.
C39_Witness ==
    /\ last.op = "ensure" /\ last.ret
    /\ "Data/MQL5" \in fs[last.account]
    /\ launcher[last.account] = <<>>
====
